---- MODULE Spec2Model ----
(***************************************************************************)
(* Air Quality Analyzer API (src/main.py): the CPCB AQI computation        *)
(* (breakpoint interpolation, worst-pollutant aggregation, category) and   *)
(* the ingest / latest / history endpoints over the document store.        *)
(*                                                                         *)
(* A concentration is a rational <<n, d>> (the float n/d, d a power of     *)
(* two, so the float is exact).  round() is computed on the exact value of *)
(* the interpolation; on every quarter-step concentration used here this   *)
(* gives the integer the float evaluation gives.                           *)
(***************************************************************************)
EXTENDS Integers, Sequences, FiniteSets, TLC

VARIABLES
    fn, arg, ret,                               \* a direct call of one helper
    pm25, pm10, si_pm25, si_pm10, aqi, category, \* the AQI pipeline's locals
    store, now, response                        \* collection, clock, last HTTP response

vars == <<fn, arg, ret, pm25, pm10, si_pm25, si_pm10, aqi, category,
          store, now, response>>
unitVars == <<fn, arg, ret>>
aqiVars  == <<pm25, pm10, si_pm25, si_pm10, aqi, category>>
apiVars  == <<store, now, response>>

(* ------------------------------ bounds --------------------------------- *)
MaxNeg    == 5      \* most negative concentration tried
Over      == 2      \* concentrations are tried up to Over beyond a table's last Chigh
FarBeyond == 1000   \* one concentration far beyond both tables
MaxAqiArg == 510    \* aqi_category is called on 0..MaxAqiArg
MaxIngest == 3      \* ingest requests per run
MaxTime   == 2      \* clock readings 0..MaxTime

(* --------------------------- rationals --------------------------------- *)
Max2(a, b) == IF a >= b THEN a ELSE b
Min2(a, b) == IF a <= b THEN a ELSE b

\* c1 <= c2 for concentrations <<n, d>>
CLeq(c1, c2) == c1[1] * c2[2] <= c2[1] * c1[2]

(* ------------------------ _calc_sub_index ------------------------------ *)
\* max(0.0, Cp)
Clamp0_none(Cp) == Cp
Clamp0_abs(Cp) == IF Cp[1] < 0 THEN <<0 - Cp[1], Cp[2]>> ELSE Cp
Clamp0(Cp) == IF Cp[1] < 0 THEN <<0, Cp[2]>> ELSE Cp

\* if Cp <= Ch
RowMatches_strict(Cp, Ch) == Cp[1] < Ch * Cp[2]
RowMatches(Cp, Ch) == Cp[1] <= Ch * Cp[2]

\* ((Ih - Il) / (Ch - Cl)) * (Cp - Cl) + Il as the fraction <<P, Q>>, Q > 0
Interpolate(Cp, row) ==
    LET Cl == row[1]  Ch == row[2]  Il == row[3]  Ih == row[4]
        n == Cp[1]    d == Cp[2]
    IN  << (Ih - Il) * (n - Cl * d) + Il * (Ch - Cl) * d, (Ch - Cl) * d >>

\* int(round(I)): Python 3 round() of a float, ties go to the even integer
PyRound_halfup(I) ==
    LET fl == I[1] \div I[2]
        r  == I[1] % I[2]
    IN  IF 2 * r < I[2] THEN fl ELSE fl + 1
PyRound(I) ==
    LET fl == I[1] \div I[2]
        r  == I[1] % I[2]
    IN  IF 2 * r < I[2] THEN fl
        ELSE IF 2 * r > I[2] THEN fl + 1
        ELSE IF fl % 2 = 0 THEN fl ELSE fl + 1

\* return 500  # Cap at Severe
Cap_low == 500 - 100
Cap == 500

RECURSIVE ScanRows(_, _, _)
ScanRows(Cp, breakpoints, i) ==
    IF i > Len(breakpoints) THEN Cap
    ELSE IF RowMatches(Cp, breakpoints[i][2])
         THEN PyRound(Interpolate(Cp, breakpoints[i]))
         ELSE ScanRows(Cp, breakpoints, i + 1)

calc_sub_index(Cp, breakpoints) == ScanRows(Clamp0(Cp), breakpoints, 1)

BpsPm25 == << <<0, 30, 0, 50>>, <<31, 60, 51, 100>>, <<61, 90, 101, 200>>,
              <<91, 120, 201, 300>>, <<121, 250, 301, 400>>, <<251, 350, 401, 500>> >>
BpsPm10 == << <<0, 50, 0, 50>>, <<51, 100, 51, 100>>, <<101, 250, 101, 200>>,
              <<251, 350, 201, 300>>, <<351, 430, 301, 400>>, <<431, 600, 401, 500>> >>

sub_index_pm25(c) == calc_sub_index(c, BpsPm25)
sub_index_pm10(c) == calc_sub_index(c, BpsPm10)

(* --------------------------- aqi_category ------------------------------ *)
aqi_category_strict(a) ==
    IF a < 50 THEN "Good"
    ELSE IF a < 100 THEN "Satisfactory"
    ELSE IF a < 200 THEN "Moderate"
    ELSE IF a < 300 THEN "Poor"
    ELSE IF a < 400 THEN "Very Poor"
    ELSE "Severe"
aqi_category(a) ==
    IF a <= 50 THEN "Good"
    ELSE IF a <= 100 THEN "Satisfactory"
    ELSE IF a <= 200 THEN "Moderate"
    ELSE IF a <= 300 THEN "Poor"
    ELSE IF a <= 400 THEN "Very Poor"
    ELSE "Severe"

\* aqi = max(si_pm25, si_pm10)
OverallAqi_first(a, b) == a
OverallAqi(a, b) == Max2(a, b)

(* ------------------- direct calls of the helpers ----------------------- *)
Bps(f) == IF f = "sub_index_pm25" THEN BpsPm25 ELSE BpsPm10
LastChigh(bps) == bps[Len(bps)][2]

\* the concentrations tried on a table: every quarter-step from -MaxNeg to
\* Over beyond the table's last Chigh, and one value far beyond
Concentrations(bps) ==
    {<<q, 4>> : q \in (0 - 4 * MaxNeg)..(4 * (LastChigh(bps) + Over))}
    \cup {<<FarBeyond, 1>>}

SubIndexFns == {"sub_index_pm25", "sub_index_pm10"}

\* values of the variables a specification does not use
NoCall      == "none"
NotComputed == ""
IdleUnit == fn = NoCall /\ arg = <<>> /\ ret = <<>>
IdleAqi  == /\ pm25 = <<0, 1>> /\ pm10 = <<0, 1>>
            /\ si_pm25 = 0 /\ si_pm10 = 0 /\ aqi = 0 /\ category = NotComputed
NoResponse == [op |-> "none", status |-> 0, limit |-> <<>>, body |-> <<>>]
IdleApi  == store = <<>> /\ now = 0 /\ response = NoResponse

InitUnit ==
    /\ fn \in SubIndexFns \cup {"aqi_category"}
    /\ arg = <<>>
    /\ ret = <<>>
    /\ IdleAqi
    /\ IdleApi

CallSubIndexPm25 ==
    /\ fn = "sub_index_pm25"
    /\ \E c \in Concentrations(BpsPm25) :
          /\ arg' = c
          /\ ret' = <<sub_index_pm25(c)>>
    /\ UNCHANGED <<fn, aqiVars, apiVars>>

CallSubIndexPm10 ==
    /\ fn = "sub_index_pm10"
    /\ \E c \in Concentrations(BpsPm10) :
          /\ arg' = c
          /\ ret' = <<sub_index_pm10(c)>>
    /\ UNCHANGED <<fn, aqiVars, apiVars>>

CallAqiCategory ==
    /\ fn = "aqi_category"
    /\ \E a \in 0..MaxAqiArg :
          /\ arg' = a
          /\ ret' = <<aqi_category(a)>>
    /\ UNCHANGED <<fn, aqiVars, apiVars>>

NextUnit == CallSubIndexPm25 \/ CallSubIndexPm10 \/ CallAqiCategory
SpecUnit == InitUnit /\ [][NextUnit]_vars

(* ---------------- the AQI pipeline of ingest_reading ------------------- *)
\* the concentrations tried in pairs: every row boundary of the table and
\* the quarter-steps next to it, the scenarios' values, negative values and
\* values beyond the table
PairInputs(bps) ==
    {<<0 - MaxNeg, 1>>, <<0 - 1, 2>>, <<1, 2>>, <<3, 2>>, <<10, 1>>, <<20, 1>>,
     <<400, 1>>, <<FarBeyond, 1>>}
    \cup UNION {{<<4 * bps[i][1], 4>>, <<4 * bps[i][2] - 2, 4>>, <<4 * bps[i][2], 4>>,
                 <<4 * bps[i][2] + 1, 4>>, <<4 * bps[i][2] + 2, 4>>}
                : i \in 1..Len(bps)}

InitAQI ==
    /\ pm25 \in PairInputs(BpsPm25)
    /\ pm10 \in PairInputs(BpsPm10)
    /\ si_pm25 = 0 /\ si_pm10 = 0 /\ aqi = 0 /\ category = NotComputed
    /\ IdleUnit
    /\ IdleApi

\* lines 147-151: the sub-indices, their maximum and its category
ComputeAQI ==
    /\ category = NotComputed
    /\ si_pm25' = sub_index_pm25(pm25)
    /\ si_pm10' = sub_index_pm10(pm10)
    /\ aqi' = OverallAqi(si_pm25', si_pm10')
    /\ category' = aqi_category(aqi')
    /\ UNCHANGED <<pm25, pm10, unitVars, apiVars>>


(* ------------------------- the HTTP endpoints -------------------------- *)
\* an optional field is <<>> (None) or <<v>>
None == <<>>
Some(v) == <<v>>

Payload(p25, p10, co2, temperature, humidity) ==
    [pm25 |-> p25, pm10 |-> p10, co2 |-> co2, temperature |-> temperature,
     humidity |-> humidity]

\* the request bodies tried: the four scenarios, one of them with the
\* optional fields set, and bodies the validation rejects
Payloads ==
    { Payload(<<10, 1>>, <<20, 1>>, None, None, None),
      Payload(<<60, 1>>, <<30, 1>>, Some(<<800, 1>>), Some(<<0 - 3, 1>>), Some(<<55, 1>>)),
      Payload(<<0, 1>>, <<0, 1>>, None, None, None),
      Payload(<<400, 1>>, <<0, 1>>, None, None, None),
      Payload(<<0 - 5, 1>>, <<0 - 5, 1>>, None, None, None),
      Payload(<<10, 1>>, <<20, 1>>, None, None, Some(<<150, 1>>)) }

\* class IngestReading: pm25 >= 0, pm10 >= 0, co2 >= 0, 0 <= humidity <= 100
Valid(p) ==
    /\ p.pm25[1] >= 0
    /\ p.pm10[1] >= 0
    /\ (p.co2 # None => p.co2[1][1] >= 0)
    /\ (p.humidity # None =>
            p.humidity[1][1] >= 0 /\ p.humidity[1][1] <= 100 * p.humidity[1][2])

\* datetime.isoformat(): the datetime t as a string
Isoformat(t) == <<"iso", t>>
ParseIso(x) == x[2]

DatetimeFields == {"timestamp", "created_at", "updated_at"}

\* _serialize: drop _id, datetimes become ISO strings
Serialize(doc) ==
    [k \in DOMAIN doc \ {"_id"} |->
        IF k \in DatetimeFields THEN Isoformat(doc[k]) ELSE doc[k]]

\* datetime.min, before every clock reading
DatetimeMin == 0 - 1

\* lambda d: d.get("timestamp") or d.get("created_at") or datetime.min
SortKey(d) ==
    IF "timestamp" \in DOMAIN d THEN d["timestamp"]
    ELSE IF "created_at" \in DOMAIN d THEN d["created_at"]
    ELSE DatetimeMin

\* sorted(docs, key=..., reverse=True): stable, equal keys keep their order
RECURSIVE InsertDesc(_, _)
InsertDesc(d, s) ==
    IF s = <<>> THEN <<d>>
    ELSE IF SortKey(d) > SortKey(Head(s)) THEN <<d>> \o s
    ELSE <<Head(s)>> \o InsertDesc(d, Tail(s))

RECURSIVE SortedFrom(_, _, _)
SortedFrom(docs, i, acc) ==
    IF i > Len(docs) THEN acc
    ELSE SortedFrom(docs, i + 1, InsertDesc(docs[i], acc))

SortedDesc(docs) == SortedFrom(docs, 1, <<>>)

\* s[:n]
Take(s, n) == SubSeq(s, 1, Min2(n, Len(s)))
Reverse(s) == [i \in 1..Len(s) |-> s[Len(s) + 1 - i]]

\* create_document(COLLECTION, data): the document is appended to the
\* collection under a fresh _id
create_document(coll, data) == Append(coll, ("_id" :> Len(coll) + 1) @@ data)

\* get_documents(COLLECTION, {}, limit=None): every document, in stored order
get_documents(coll) == coll

\* POST /api/air/ingest
Ingest ==
    /\ Len(store) < MaxIngest
    /\ \E p \in Payloads, dbOk \in BOOLEAN :
          IF ~Valid(p)
          THEN /\ response' = [op |-> "ingest", status |-> 422, limit |-> None,
                               body |-> "validation error"]
               /\ store' = store
          ELSE LET si25 == sub_index_pm25(p.pm25)
                   si10 == sub_index_pm10(p.pm10)
                   a    == OverallAqi(si25, si10)
                   cat  == aqi_category(a)
                   data == ("aqi" :> a) @@ ("category" :> cat)
                           @@ ("timestamp" :> now) @@ p
               IN  IF dbOk
                   THEN /\ store' = create_document(store, data)
                        /\ response' = [op |-> "ingest", status |-> 200, limit |-> None,
                                        body |-> [status |-> "ok", aqi |-> a,
                                                  category |-> cat]]
                   ELSE /\ store' = store
                        /\ response' = [op |-> "ingest", status |-> 500, limit |-> None,
                                        body |-> "Database error"]
    /\ UNCHANGED <<now, unitVars, aqiVars>>

\* the default reading of get_latest when nothing is stored
DefaultReading ==
    ("aqi" :> 0) @@ ("category" :> "Good") @@ ("timestamp" :> Isoformat(now))
    @@ Payload(<<0, 1>>, <<0, 1>>, None, None, None)

\* the body of get_latest
latest_of(docs) == Serialize(SortedDesc(docs)[1])

get_latest(opname, dbOk) ==
    IF ~dbOk
    THEN [op |-> opname, status |-> 500, limit |-> None, body |-> "Database error"]
    ELSE LET docs == get_documents(store)
         IN  IF docs = <<>>
             THEN [op |-> opname, status |-> 200, limit |-> None, body |-> DefaultReading]
             ELSE [op |-> opname, status |-> 200, limit |-> None, body |-> latest_of(docs)]

\* GET /api/air/latest
GetLatest ==
    /\ \E dbOk \in BOOLEAN : response' = get_latest("latest", dbOk)
    /\ UNCHANGED <<store, now, unitVars, aqiVars>>

\* GET /get_data
GetDataAlias ==
    /\ \E dbOk \in BOOLEAN : response' = get_latest("get_data", dbOk)
    /\ UNCHANGED <<store, now, unitVars, aqiVars>>

\* limit: int = 50
DefaultLimit == 50
LimitLow == 1
LimitHigh == 500

\* lim = max(1, min(limit, 500))
ClampLimit(limit) == Max2(LimitLow, Min2(limit, LimitHigh))

\* the body of get_history
history_of_unreversed(docs, limit) ==
    LET s == Take(SortedDesc(docs), ClampLimit(limit))
    IN  [i \in 1..Len(s) |-> Serialize(s[i])]
history_of(docs, limit) ==
    LET s == Reverse(Take(SortedDesc(docs), ClampLimit(limit)))
    IN  [i \in 1..Len(s) |-> Serialize(s[i])]

\* the limit query parameters tried; None is a request without one
Limits == {0 - 1, 0, 1, 2, 3, 50, 499, 500, 501}

\* GET /api/air/history
GetHistory ==
    /\ \E q \in {None} \cup {Some(l) : l \in Limits}, dbOk \in BOOLEAN :
          LET limit == IF q = None THEN DefaultLimit ELSE q[1]
          IN  response' =
                IF dbOk
                THEN [op |-> "history", status |-> 200, limit |-> q,
                      body |-> history_of(get_documents(store), limit)]
                ELSE [op |-> "history", status |-> 500, limit |-> q,
                      body |-> "Database error"]
    /\ UNCHANGED <<store, now, unitVars, aqiVars>>

\* time passes between two readings of datetime.now(timezone.utc)
Tick ==
    /\ now < MaxTime
    /\ now' = now + 1
    /\ UNCHANGED <<store, response, unitVars, aqiVars>>

Init == IdleUnit /\ IdleAqi /\ IdleApi
Next == Ingest \/ GetLatest \/ GetDataAlias \/ GetHistory \/ Tick
Spec == Init /\ [][Next]_vars

\* the AQI pipeline on arbitrary numbers, and the ingest endpoint storing its result
NextAQI == ComputeAQI \/ Ingest
SpecAQI == InitAQI /\ [][NextAQI]_vars

(* ------------------------------ properties ----------------------------- *)
Computed == category # NotComputed
IngestOk == response.op = "ingest" /\ response.status = 200
Last(s) == s[Len(s)]
IsConc(c, n) == c[1] = n * c[2]

\* C1: the AQI that ingest_reading returns and stores is the maximum of the
\* two sub-indices of the stored concentrations, the category is
\* aqi_category of that AQI, and the four scenarios give 20/Good,
\* 100/Satisfactory, 0/Good and 500/Severe.
DocAqiIsMax(d) ==
    /\ d["aqi"] = Max2(sub_index_pm25(d["pm25"]), sub_index_pm10(d["pm10"]))
    /\ d["category"] = aqi_category(d["aqi"])
    /\ (IsConc(d["pm25"], 10) /\ IsConc(d["pm10"], 20)
           => d["aqi"] = 20 /\ d["category"] = "Good")
    /\ (IsConc(d["pm25"], 60) /\ IsConc(d["pm10"], 30)
           => d["aqi"] = 100 /\ d["category"] = "Satisfactory")
    /\ (IsConc(d["pm25"], 0) /\ IsConc(d["pm10"], 0)
           => d["aqi"] = 0 /\ d["category"] = "Good")
    /\ (IsConc(d["pm25"], 400) /\ IsConc(d["pm10"], 0)
           => d["aqi"] = 500 /\ d["category"] = "Severe")
C1_AqiIsMaxSubIndex ==
    /\ \A i \in 1..Len(store) : DocAqiIsMax(store[i])
    /\ (IngestOk =>
          /\ store # <<>>
          /\ response.body.aqi = Last(store)["aqi"]
          /\ response.body.category = Last(store)["category"])
C1_Witness ==
    /\ IngestOk
    /\ Len(store) = 2
    /\ IsConc(store[1]["pm25"], 60) /\ store[1]["aqi"] = 100
    /\ IsConc(store[2]["pm25"], 10) /\ IsConc(store[2]["pm10"], 20)
    /\ response.body.aqi = 20 /\ response.body.category = "Good"

\* C2: on both tables the sub-index is monotonically non-decreasing over the
\* real concentrations between 0 and the last row's Chigh: a call on a
\* concentration at least as large never returns a smaller sub-index.
InTable(c, bps) == c[1] >= 0 /\ c[1] <= LastChigh(bps) * c[2]
C2_Monotone ==
    [][(fn \in SubIndexFns /\ ret # <<>>
        /\ InTable(arg, Bps(fn)) /\ InTable(arg', Bps(fn)) /\ CLeq(arg, arg'))
       => ret[1] <= ret'[1]]_vars

\* C3: every sub-index and the AQI computed from any pair of concentrations
\* (negative, zero, fractional, in a gap between rows, beyond the tables) is
\* an integer in 0..500, and so is the aqi of every stored record.
C3_AqiInRange ==
    /\ (Computed => si_pm25 \in 0..500 /\ si_pm10 \in 0..500 /\ aqi \in 0..500)
    /\ \A i \in 1..Len(store) : store[i]["aqi"] \in 0..500
C3_Witness ==
    /\ Computed
    /\ pm25[1] < 0                     \* negative
    /\ pm10 = <<4 * 350 + 2, 4>>       \* 350.5, in the gap between two rows
    /\ aqi = 300
    /\ Len(store) = 2 /\ store[2]["aqi"] = 500

\* C4: sub_index(Chigh of row i) = Ihigh of row i and sub_index(Clow of row
\* i) = Ilow of row i, for every row of both tables.
C4_BoundaryContinuity ==
    (fn \in SubIndexFns /\ ret # <<>>) =>
        \A i \in 1..Len(Bps(fn)) :
            /\ (IsConc(arg, Bps(fn)[i][2]) => ret[1] = Bps(fn)[i][4])
            /\ (IsConc(arg, Bps(fn)[i][1]) => ret[1] = Bps(fn)[i][3])
C4_Witness ==
    fn = "sub_index_pm25" /\ ret = <<51>> /\ IsConc(arg, 31)

\* the row _calc_sub_index selects for Cp (0 when Cp is beyond the table)
SelectedRow(Cp, bps) ==
    IF \E i \in 1..Len(bps) : Cp[1] <= bps[i][2] * Cp[2]
    THEN CHOOSE i \in 1..Len(bps) :
            /\ Cp[1] <= bps[i][2] * Cp[2]
            /\ \A j \in 1..(i - 1) : Cp[1] > bps[j][2] * Cp[2]
    ELSE 0
\* the interpolated value of Cp (not negative) lies halfway between two integers
IsTie(Cp, bps) ==
    /\ Cp[1] >= 0
    /\ SelectedRow(Cp, bps) # 0
    /\ LET I == Interpolate(Cp, bps[SelectedRow(Cp, bps)])
       IN  2 * (I[1] % I[2]) = I[2]
TieFloor(Cp, bps) ==
    LET I == Interpolate(Cp, bps[SelectedRow(Cp, bps)]) IN I[1] \div I[2]

\* C5 as stated: an interpolated value halfway between two integers gives the
\* integer farther from zero.
C5_HalfAwayFromZero ==
    (fn \in SubIndexFns /\ ret # <<>> /\ IsTie(arg, Bps(fn)))
        => ret[1] = TieFloor(arg, Bps(fn)) + 1

\* C5 amended: an interpolated value halfway between two integers gives the
\* even one of the two (round half to even): k + 1 for odd k, k for even k.
C5_HalfToEven ==
    (fn \in SubIndexFns /\ ret # <<>> /\ IsTie(arg, Bps(fn)))
        => /\ ret[1] \in {TieFloor(arg, Bps(fn)), TieFloor(arg, Bps(fn)) + 1}
           /\ ret[1] % 2 = 0
C5_Witness ==
    fn = "sub_index_pm10" /\ ret = <<2>> /\ arg = <<4 * 2 + 2, 4>>

\* C6: a concentration strictly above the last row's Chigh (350 for PM2.5,
\* 600 for PM10) has sub-index exactly 500, and the AQI is then 500 /
\* "Severe" whatever the other pollutant.
C6_Saturation ==
    Computed =>
        /\ (pm25[1] > 350 * pm25[2] => si_pm25 = 500 /\ aqi = 500 /\ category = "Severe")
        /\ (pm10[1] > 600 * pm10[2] => si_pm10 = 500 /\ aqi = 500 /\ category = "Severe")
C6_Witness ==
    /\ Computed
    /\ pm25 = <<4 * 350 + 1, 4>>       \* 350.25
    /\ IsConc(pm10, 20)
    /\ si_pm25 = 500 /\ si_pm10 = 20 /\ aqi = 500 /\ category = "Severe"

\* C7: a negative concentration has the sub-index of 0, which is 0, on both
\* tables; two negative concentrations give AQI 0 / "Good".
C7_NegativeClamps ==
    Computed =>
        /\ (pm25[1] < 0 => si_pm25 = 0)
        /\ (pm10[1] < 0 => si_pm10 = 0)
        /\ (IsConc(pm25, 0) => si_pm25 = 0)
        /\ (IsConc(pm10, 0) => si_pm10 = 0)
        /\ (pm25[1] < 0 /\ pm10[1] < 0 => aqi = 0 /\ category = "Good")
C7_Witness ==
    /\ Computed
    /\ IsConc(pm25, 0 - 5) /\ IsConc(pm10, 0 - 5)
    /\ aqi = 0 /\ category = "Good"

\* C8: aqi_category gives every integer AQI >= 0 exactly the label of its
\* band: 0..50 Good, 51..100 Satisfactory, 101..200 Moderate, 201..300 Poor,
\* 301..400 Very Poor, above 400 Severe.
C8_CategoryBands ==
    (fn = "aqi_category" /\ ret # <<>>) =>
        /\ (ret[1] = "Good" <=> arg \in 0..50)
        /\ (ret[1] = "Satisfactory" <=> arg \in 51..100)
        /\ (ret[1] = "Moderate" <=> arg \in 101..200)
        /\ (ret[1] = "Poor" <=> arg \in 201..300)
        /\ (ret[1] = "Very Poor" <=> arg \in 301..400)
        /\ (ret[1] = "Severe" <=> arg > 400)
C8_Witness ==
    fn = "aqi_category" /\ ret = <<"Very Poor">> /\ arg = 400

HistoryOk == response.op = "history" /\ response.status = 200
Count(S) == Cardinality(S)

ReadOps == {"latest", "get_data", "history"}
LatestOk == response.op \in {"latest", "get_data"} /\ response.status = 200
C10_LatestReturned ==
    LatestOk =>
        IF store = <<>>
        THEN response.body["aqi"] = 0 /\ response.body["category"] = "Good"
        ELSE /\ \A j \in 1..Len(store) :
                  store[j]["timestamp"] <= ParseIso(response.body["timestamp"])
             /\ response.body = Serialize(Last(store))
             /\ \A l \in Limits \cup {DefaultLimit} :
                  response.body = Last(history_of(get_documents(store), l))
C10_LatestIsMostRecent ==
    /\ []C10_LatestReturned
    /\ [][response'.op \in ReadOps => store' = store]_vars

====
